---- MODULE Spec2Model ----
(***************************************************************************)
(* Model of the typescript-library-template repository: the bundler        *)
(* configuration (tsdown.config.ts), the package scripts (package.json and *)
(* the standardized scripts of STANDARDIZATION_GUIDE.md) and the shell     *)
(* "&&" chains and publish hook that run them.                             *)
(***************************************************************************)
EXTENDS Integers, Sequences, FiniteSets, TLC

(***************************************************************************)
(* JavaScript values of process.env.NODE_ENV: undefined or a string.       *)
(***************************************************************************)
undefined == [type |-> "undefined", val |-> ""]

Str(s) == [type |-> "string", val |-> s]

\* The flag values a build can be started with (absent, empty, usual
\* values, near-misses of the sentinel, the sentinel).
Flags ==
  {undefined, Str(""), Str("development"), Str("test"),
   Str("Production"), Str("prod"), Str("production")}

\* JavaScript === on these values: same type and same value, no coercion.
StrictEquals(a, b) ==
  /\ a.type = b.type
  /\ (a.type = "string" => a.val = b.val)

(***************************************************************************)
(* tsdown.config.ts, field by field.                                       *)
(***************************************************************************)
entry == <<"src/index.ts", "src/**/*.ts">>

format_dual == <<"esm", "cjs">>

format == <<"esm">>

dts_off == FALSE

dts == TRUE

clean == TRUE

sourcemap_off == FALSE

sourcemap == TRUE

minify_caseless(env) ==
  \/ StrictEquals(env, Str("production"))
  \/ StrictEquals(env, Str("Production"))

minify(env) == StrictEquals(env, Str("production"))

target == "es2020"

outDir_staging(env) ==
  IF StrictEquals(env, Str("production")) \/ StrictEquals(env, Str("test"))
    THEN "dist" ELSE "lib"

outDir_swapped(env) ==
  IF StrictEquals(env, Str("production")) THEN "lib" ELSE "dist"

outDir(env) == IF StrictEquals(env, Str("production")) THEN "dist" ELSE "lib"

\* The argument the bundler passes to the outExtensions callback.
Contexts ==
  [format : {"es", "cjs", "iife", "umd"},
   pkgType : {"module", "commonjs", "undefined"}]

outExtensions_byFormat(ctx) ==
  IF ctx.format = "es" THEN [js |-> ".mjs", dts |-> ".d.mts"]
  ELSE IF ctx.format = "cjs" THEN [js |-> ".cjs", dts |-> ".d.cts"]
  ELSE [js |-> ".js", dts |-> ".d.ts"]

outExtensions(ctx) == [js |-> ".js", dts |-> ".d.ts"]

\* The value of a failed module evaluation (an exception while the
\* configuration object is built).
ConfigError == [error |-> "TypeError"]

NoConfig == [error |-> "not loaded"]

defineConfig_deref(env) ==
  IF env.type = "undefined" THEN ConfigError
  ELSE [entry |-> entry, format |-> format, dts |-> dts, clean |-> clean,
        sourcemap |-> sourcemap, minify |-> minify(env), target |-> target,
        outDir |-> outDir(env),
        outExtensions |-> [ctx \in Contexts |-> outExtensions(ctx)]]

defineConfig_devTarget(env) ==
  [entry |-> entry, format |-> format, dts |-> dts, clean |-> clean,
   sourcemap |-> sourcemap, minify |-> minify(env),
   target |-> IF minify(env) THEN "es2020" ELSE "esnext",
   outDir |-> outDir(env),
   outExtensions |-> [ctx \in Contexts |-> outExtensions(ctx)]]

\* export default defineConfig({...}) with env = process.env.NODE_ENV.
defineConfig(env) ==
  [entry |-> entry, format |-> format, dts |-> dts, clean |-> clean,
   sourcemap |-> sourcemap, minify |-> minify(env), target |-> target,
   outDir |-> outDir(env),
   outExtensions |-> [ctx \in Contexts |-> outExtensions(ctx)]]

ConfigFields ==
  {"entry", "format", "dts", "clean", "sourcemap", "minify", "target",
   "outDir", "outExtensions"}

(***************************************************************************)
(* Commands of the package scripts.                                        *)
(***************************************************************************)
Inherit == [type |-> "inherit", val |-> ""]

\* pnpm <script>: run a script of the manifest.
Pnpm(s) == [kind |-> "pnpm", name |-> s, setenv |-> Inherit]

\* An external tool started with the caller's environment.
Tool(n) == [kind |-> "tool", name |-> n, setenv |-> Inherit]

\* cross-env NODE_ENV=<v> <tool>: the tool runs with NODE_ENV overridden.
CrossEnv(v, n) == [kind |-> "tool", name |-> n, setenv |-> Str(v)]

\* A lifecycle hook: runs the script of that name when the manifest has one.
Hook(s) == [kind |-> "hook", name |-> s, setenv |-> Inherit]

\* npm publish --access public / pnpm publish --access public.
Publish == [kind |-> "publish", name |-> "publish --access public", setenv |-> Inherit]

\* The upload of the package to the registry, the last step of a publish.
Upload == Tool("registry upload")

NoCmd == [kind |-> "none", name |-> "", setenv |-> Inherit]

IsBundler(c) ==
  c.kind = "tool" /\ c.name \in {"tsup", "tsup --watch", "tsdown", "tsdown --watch"}

\* Largest exit status a tool is taken to return (0 is success).
MaxExit == 2

ExitCodes == 0..MaxExit

(***************************************************************************)
(* The standardized scripts (STANDARDIZATION_GUIDE.md).                    *)
(***************************************************************************)
ci_buildFirst == <<Pnpm("format"), Pnpm("lint:check"), Pnpm("build"), Pnpm("test")>>

ci == <<Pnpm("format"), Pnpm("lint:check"), Pnpm("test"), Pnpm("build")>>

prepublishOnly == <<Pnpm("ci")>>

build == <<Tool("rimraf dist"), CrossEnv("production", "tsup")>>

dev == <<Tool("tsup --watch")>>

StandardScripts ==
  ("ci" :> ci) @@
  ("format" :> <<Tool("prettier --write .")>>) @@
  ("format:check" :> <<Tool("prettier --check .")>>) @@
  ("lint" :> <<Tool("eslint ./src --fix")>>) @@
  ("lint:check" :> <<Tool("eslint ./src")>>) @@
  ("test" :> <<Tool("vitest run")>>) @@
  ("test:watch" :> <<Tool("vitest")>>) @@
  ("test:coverage" :> <<Tool("vitest run --coverage")>>) @@
  ("test:ui" :> <<Tool("vitest --ui")>>) @@
  ("build" :> build) @@
  ("build:watch" :> <<Tool("tsup --watch")>>) @@
  ("dev" :> dev) @@
  ("prepublishOnly" :> prepublishOnly) @@
  ("ts-types" :> <<Tool("tsc --noEmit")>>)

(***************************************************************************)
(* The scripts of the template's own manifest (package.json).              *)
(***************************************************************************)
buildProd_noCrossEnv == <<Tool("rimraf dist"), Tool("tsup")>>

buildProd == <<Tool("rimraf dist"), CrossEnv("production", "tsup")>>

buildPublish_publishFirst == <<Publish, Pnpm("build:prod")>>

buildPublish == <<Pnpm("build:prod"), Publish>>

PackageScripts ==
  ("ts-types" :> <<Tool("tsc")>>) @@
  ("build:dev" :> <<Tool("rimraf lib"), Tool("tsup --watch")>>) @@
  ("build:prod" :> buildProd) @@
  ("build:watch" :> <<Tool("tsup --watch")>>) @@
  ("build:publish" :> buildPublish) @@
  ("lint:fix" :> <<Tool("eslint ./src --fix")>>) @@
  ("lint:format" :> <<Tool("prettier --write")>>) @@
  ("lint" :> <<Pnpm("lint:format"), Pnpm("lint:fix")>>) @@
  ("test" :> <<Tool("jest")>>) @@
  ("test:watch" :> <<Tool("jest --watch")>>) @@
  ("test:cov" :> <<Tool("jest --coverage")>>)

Manifests == {"package", "standard"}

Scripts(m) == IF m = "standard" THEN StandardScripts ELSE PackageScripts

\* The files the manifest names as entry points (main, module, types and
\* exports), all under dist/.
PackageEntryPoints == {"index.js", "index.mjs", "index.d.ts"}

\* The entry points of the documented manifest (Package Exports).
DocumentedEntryPoints == {"index.js", "index.d.ts"}

EntryPoints(m) == IF m = "package" THEN PackageEntryPoints ELSE DocumentedEntryPoints

\* What a publish runs: the prepublishOnly hook, then the upload.
PublishSteps == <<Hook("prepublishOnly"), Upload>>

\* a && b: b runs only when a exited with status 0.
AndAnd_ignoreStatus(status) == TRUE

AndAnd(status) == status = 0

\* The commands a user types at the prompt.
EntryCmds ==
  {Pnpm(s) : s \in (DOMAIN StandardScripts) \cup (DOMAIN PackageScripts)}
    \cup {Publish, Tool("tsdown")}

Start(c) == [ev |-> "start", cmd |-> c, status |-> 0]

End(c, s) == [ev |-> "end", cmd |-> c, status |-> s]

(***************************************************************************)
(* Project files: the sources that prettier and eslint read and may        *)
(* rewrite, and the build output in dist/ and lib/.                        *)
(***************************************************************************)
\* prettier --write and eslint --fix rewrite the sources.
Fixes_checkWrites(n) ==
  n \in {"prettier --write .", "prettier --write", "eslint ./src --fix",
         "eslint ./src"}

Fixes(n) == n \in {"prettier --write .", "prettier --write", "eslint ./src --fix"}

\* prettier --check and eslint without --fix only report.
Checks(n) == n \in {"prettier --check .", "eslint ./src"}

\* The sources after a tool has run on them and exited with status s.
SrcAfter(n, s, before) ==
  IF ~Fixes(n) THEN {before}
  ELSE IF s = 0 THEN {"clean"}
  ELSE {before, "clean"}

\* A file of the build output: its directory, its name and what it is (a
\* bundle in a module format, a source map, declarations).
File(d, n, k) == [dir |-> d, name |-> n, kind |-> k]

\* Output of an earlier build of a module that has since been deleted.
StaleFiles == {File("dist", "old.js", "esm"), File("lib", "old.js", "esm")}

\* The format name the bundler passes to outExtensions for a format of the
\* configuration.
CtxFormat(f) == IF f = "esm" THEN "es" ELSE f

\* package.json has no "type" field.
PkgType == "undefined"

\* The files a build of src/index.ts writes under the configuration: per
\* format the bundle, its source map and its declarations.
Emit(cfg) ==
  UNION {
    LET e == cfg.outExtensions[[format |-> CtxFormat(cfg.format[i]), pkgType |-> PkgType]]
    IN  {File(cfg.outDir, "index" \o e.js, cfg.format[i])}
          \cup (IF cfg.sourcemap
                  THEN {File(cfg.outDir, "index" \o e.js \o ".map", "map")} ELSE {})
          \cup (IF cfg.dts THEN {File(cfg.outDir, "index" \o e.dts, "dts")} ELSE {})
    : i \in DOMAIN cfg.format }

\* rimraf <dir>.
Rimraf(fs, d) == {f \in fs : f.dir # d}

\* A build: clean empties outDir first, then the output is written.
Built(fs, cfg) == (IF cfg.clean THEN Rimraf(fs, cfg.outDir) ELSE fs) \cup Emit(cfg)

IsRimraf(n) == n \in {"rimraf dist", "rimraf lib"}

RimrafTarget(n) == IF n = "rimraf dist" THEN "dist" ELSE "lib"

\* The project files after a tool other than the bundler has exited.
FilesAfter(n, s, fs) ==
  IF ~IsRimraf(n) THEN {fs}
  ELSE IF s = 0 THEN {Rimraf(fs, RimrafTarget(n))}
  ELSE {fs, Rimraf(fs, RimrafTarget(n))}

IsWatch(c) == c.kind = "tool" /\ c.name \in {"tsup --watch", "tsdown --watch"}

\* package.json "files": the directories that go into the package.
PublishedDirs == {"lib", "dist"}

Packed(fs) == {f \in fs : f.dir \in PublishedDirs}

NotPublished == {File("", "", "")}

\* process.env.NODE_ENV after tsdown.config.ts has been evaluated: the
\* module reads it and assigns nothing.
EnvAfterLoad_defaulting(e) == IF e = undefined THEN Str("development") ELSE e

EnvAfterLoad(e) == e

\* The configuration a watch-mode rebuild uses: the object exported when
\* the module was evaluated, whatever process.env.NODE_ENV is by then.
WatchConfig_reread(cfg, penv) == defineConfig(penv)

WatchConfig(cfg, penv) == cfg

(***************************************************************************)
(* State.                                                                  *)
(***************************************************************************)
VARIABLES
  manifest,    \* which manifest the project has
  NODE_ENV,    \* process.env.NODE_ENV of the calling shell
  stack,       \* the chains being run, innermost last
  running,     \* the external tool that is running, or NoCmd
  ret,         \* exit status being returned to the innermost chain
  exit,        \* exit status of the finished invocation
  log,         \* start and end events of the current invocation
  env,         \* tsdown.config.ts: const env = process.env.NODE_ENV
  config,      \* the exported configuration, while the bundler process lives
  lastEnv,     \* env of the bundler process that exited last, if remembered
  lastConfig,  \* the configuration it was given
  procEnv,     \* process.env.NODE_ENV of the live bundler process
  src,         \* the sources: "dirty" (prettier/eslint would change them) or "clean"
  files,       \* the build output on disk
  published,   \* the files uploaded by the current invocation
  extCtx,      \* argument of the live bundler's latest outExtensions call
  ext          \* its result

vars ==
  <<manifest, NODE_ENV, stack, running, ret, exit, log, env, config,
    lastEnv, lastConfig, procEnv, src, files, published, extCtx, ext>>

runVars == <<stack, running, ret, exit, log>>

cfgVars == <<env, config, lastEnv, lastConfig, procEnv>>

fsVars == <<src, files, published>>

extVars == <<extCtx, ext>>

NoRet == -1

NoExit == -1

NoEnv == [type |-> "unread", val |-> ""]

NoCtx == [format |-> "none", pkgType |-> "none"]

NoExt == [js |-> "", dts |-> ""]

Init ==
  /\ manifest \in Manifests
  /\ NODE_ENV \in Flags
  /\ stack = <<>>
  /\ running = NoCmd
  /\ ret = NoRet
  /\ exit = NoExit
  /\ log = <<>>
  /\ env = NoEnv
  /\ config = NoConfig
  /\ lastEnv = NoEnv
  /\ lastConfig = NoConfig
  /\ procEnv = NoEnv
  /\ src \in {"dirty", "clean"}
  /\ files = StaleFiles
  /\ published = NotPublished
  /\ extCtx = NoCtx
  /\ ext = NoExt

Idle == stack = <<>> /\ running = NoCmd /\ ret = NoRet

Top == stack[Len(stack)]

Cur == Top.chain[Top.pc]

Push(chain) == Append(stack, [chain |-> chain, pc |-> 1])

Pop == SubSeq(stack, 1, Len(stack) - 1)

Ready == stack # <<>> /\ running = NoCmd /\ ret = NoRet

(***************************************************************************)
(* Operations.                                                             *)
(***************************************************************************)
\* The user exports another NODE_ENV (or unsets it) between commands.
SetEnv(f) ==
  /\ Idle
  /\ f # NODE_ENV
  /\ NODE_ENV' = f
  /\ UNCHANGED <<manifest, runVars, cfgVars, extVars, fsVars>>

\* The user types a command.  The record of the bundler process that exited
\* last is kept only from one bundler command to the next.
Invoke(c) ==
  /\ Idle
  /\ stack' = <<[chain |-> <<c>>, pc |-> 1]>>
  /\ log' = <<>>
  /\ exit' = NoExit
  /\ published' = NotPublished
  /\ lastEnv' = IF IsBundler(c) THEN lastEnv ELSE NoEnv
  /\ lastConfig' = IF IsBundler(c) THEN lastConfig ELSE NoConfig
  /\ UNCHANGED <<manifest, NODE_ENV, running, ret, env, config, procEnv, extVars, src, files>>

\* pnpm <script> with a script the manifest defines.
RunScript ==
  /\ Ready
  /\ Cur.kind = "pnpm"
  /\ Cur.name \in DOMAIN Scripts(manifest)
  /\ stack' = Push(Scripts(manifest)[Cur.name])
  /\ log' = Append(log, Start(Cur))
  /\ UNCHANGED <<manifest, NODE_ENV, running, ret, exit, cfgVars, extVars, fsVars>>

\* pnpm <script> with a script the manifest lacks: pnpm fails and nothing
\* is started.
MissingScript ==
  /\ Ready
  /\ Cur.kind = "pnpm"
  /\ Cur.name \notin DOMAIN Scripts(manifest)
  /\ log' = Append(log, End(Cur, 1))
  /\ ret' = 1
  /\ UNCHANGED <<manifest, NODE_ENV, stack, running, exit, cfgVars, extVars, fsVars>>

\* publish: the lifecycle steps of a publish are run as a chain.
RunPublish ==
  /\ Ready
  /\ Cur.kind = "publish"
  /\ stack' = Push(PublishSteps)
  /\ log' = Append(log, Start(Cur))
  /\ UNCHANGED <<manifest, NODE_ENV, running, ret, exit, cfgVars, extVars, fsVars>>

\* A lifecycle hook the manifest defines.
RunHook ==
  /\ Ready
  /\ Cur.kind = "hook"
  /\ Cur.name \in DOMAIN Scripts(manifest)
  /\ stack' = Push(Scripts(manifest)[Cur.name])
  /\ log' = Append(log, Start(Cur))
  /\ UNCHANGED <<manifest, NODE_ENV, running, ret, exit, cfgVars, extVars, fsVars>>

\* A lifecycle hook the manifest does not define is skipped.
SkipHook ==
  /\ Ready
  /\ Cur.kind = "hook"
  /\ Cur.name \notin DOMAIN Scripts(manifest)
  /\ ret' = 0
  /\ UNCHANGED <<manifest, NODE_ENV, stack, running, exit, log, cfgVars, extVars, fsVars>>

\* The NODE_ENV a tool's process sees.
ProcessEnv(c) == IF c.setenv = Inherit THEN NODE_ENV ELSE c.setenv

\* A tool other than the bundler starts.
StartTool ==
  /\ Ready
  /\ Cur.kind = "tool"
  /\ ~IsBundler(Cur)
  /\ running' = Cur
  /\ log' = Append(log, Start(Cur))
  /\ UNCHANGED <<manifest, NODE_ENV, stack, ret, exit, cfgVars, extVars, fsVars>>

\* The bundler starts and evaluates tsdown.config.ts.
StartBundler ==
  /\ Ready
  /\ IsBundler(Cur)
  /\ running' = Cur
  /\ log' = Append(log, Start(Cur))
  /\ env' = ProcessEnv(Cur)
  /\ config' = defineConfig(env')
  /\ procEnv' = EnvAfterLoad(ProcessEnv(Cur))
  /\ UNCHANGED <<manifest, NODE_ENV, stack, ret, exit, lastEnv, lastConfig, extVars, fsVars>>

\* The running bundler asks the configuration for the output extensions.
CallOutExtensions(ctx) ==
  /\ IsBundler(running)
  /\ config # ConfigError
  /\ extCtx' = ctx
  /\ ext' = config.outExtensions[ctx]
  /\ UNCHANGED <<manifest, NODE_ENV, runVars, cfgVars, fsVars>>

\* A running tool other than the bundler exits with a status: a checker
\* fails on sources it would change, a fixer may rewrite the sources, rimraf
\* removes its directory and a successful upload publishes the package.
ToolExit(s) ==
  /\ running # NoCmd
  /\ ~IsBundler(running)
  /\ (Checks(running.name) /\ src = "dirty") => s # 0
  /\ log' = Append(log, End(running, s))
  /\ running' = NoCmd
  /\ ret' = s
  /\ src' \in SrcAfter(running.name, s, src)
  /\ files' \in FilesAfter(running.name, s, files)
  /\ published' = IF running = Upload /\ s = 0 THEN Packed(files) ELSE published
  /\ UNCHANGED <<manifest, NODE_ENV, stack, exit, cfgVars, extVars>>

\* The bundler exits with a status and its configuration is discarded with
\* the process; a bundler whose configuration failed to load cannot succeed.
BundlerExit(s) ==
  /\ IsBundler(running)
  /\ config = ConfigError => s # 0
  /\ files' \in
       IF config = ConfigError \/ IsWatch(running) THEN {files}
       ELSE IF s = 0 THEN {Built(files, config)}
       ELSE {files, Rimraf(files, config.outDir)}
  /\ procEnv' = NoEnv
  /\ log' = Append(log, End(running, s))
  /\ running' = NoCmd
  /\ ret' = s
  /\ lastEnv' = env
  /\ lastConfig' = config
  /\ env' = NoEnv
  /\ config' = NoConfig
  /\ extCtx' = NoCtx
  /\ ext' = NoExt
  /\ UNCHANGED <<manifest, NODE_ENV, stack, exit, src, published>>

\* A bundler in watch mode builds, at start and again whenever a source
\* file changes, and stays alive.
Rebuild ==
  /\ IsWatch(running)
  /\ config # ConfigError
  /\ files' = Built(files, WatchConfig(config, procEnv))
  /\ UNCHANGED <<manifest, NODE_ENV, runVars, cfgVars, extVars, src, published>>

\* process.env.NODE_ENV of a bundler process in watch mode is assigned
\* another value (by a plugin or a tool loaded into the process).
ProcessEnvChange(f) ==
  /\ IsWatch(running)
  /\ f # procEnv
  /\ procEnv' = f
  /\ UNCHANGED <<manifest, NODE_ENV, runVars, env, config, lastEnv, lastConfig,
                 extVars, fsVars>>

\* a && b: a exited successfully and b is next.
Continue ==
  /\ stack # <<>>
  /\ ret # NoRet
  /\ AndAnd(ret)
  /\ Top.pc < Len(Top.chain)
  /\ stack' = [stack EXCEPT ![Len(stack)].pc = @ + 1]
  /\ ret' = NoRet
  /\ UNCHANGED <<manifest, NODE_ENV, running, exit, log, cfgVars, extVars, fsVars>>

\* The chain ends, by failure or after its last command, and its status is
\* the status of the command that ran last; the command that started the
\* chain ends with it.
ChainExit ==
  /\ stack # <<>>
  /\ ret # NoRet
  /\ ~(AndAnd(ret) /\ Top.pc < Len(Top.chain))
  /\ stack' = Pop
  /\ IF Len(stack) = 1
       THEN /\ exit' = ret
            /\ ret' = NoRet
            /\ log' = log
       ELSE /\ exit' = exit
            /\ ret' = ret
            /\ log' = Append(log, End(stack'[Len(stack')].chain[stack'[Len(stack')].pc], ret))
  /\ UNCHANGED <<manifest, NODE_ENV, running, cfgVars, extVars, fsVars>>

Next ==
  \/ \E f \in Flags : SetEnv(f)
  \/ \E c \in EntryCmds : Invoke(c)
  \/ RunScript
  \/ MissingScript
  \/ RunPublish
  \/ RunHook
  \/ SkipHook
  \/ StartTool
  \/ StartBundler
  \/ \E ctx \in Contexts : CallOutExtensions(ctx)
  \/ \E s \in ExitCodes : ToolExit(s)
  \/ \E s \in ExitCodes : BundlerExit(s)
  \/ Rebuild
  \/ \E f \in Flags : ProcessEnvChange(f)
  \/ Continue
  \/ ChainExit

Spec == Init /\ [][Next]_vars


(***************************************************************************)
(* Properties of the configuration.                                        *)
(***************************************************************************)
Production == Str("production")

\* The live bundler process has its configuration.
Loaded == config # NoConfig

\* A bundler process has exited and left its configuration on record.
LastLoaded == lastConfig # NoConfig

\* C1: whenever NODE_ENV of the bundler process is exactly "production",
\* the configuration has outDir = "dist" and minify = true.
C1_ProductionConfig ==
  /\ (Loaded /\ env = Production) =>
       (config.outDir = "dist" /\ config.minify = TRUE)
  /\ (LastLoaded /\ lastEnv = Production) =>
       (lastConfig.outDir = "dist" /\ lastConfig.minify = TRUE)

C1_Witness ==
  /\ IsBundler(running)
  /\ env = Production
  /\ config.outDir = "dist"
  /\ config.minify = TRUE

\* C2: for every NODE_ENV other than exactly "production" (undefined, "",
\* "development", "test", "Production", "prod"), the configuration has
\* outDir = "lib" and minify = false.
C2_NonProductionConfig ==
  /\ (Loaded /\ env # Production) =>
       (config.outDir = "lib" /\ config.minify = FALSE)
  /\ (LastLoaded /\ lastEnv # Production) =>
       (lastConfig.outDir = "lib" /\ lastConfig.minify = FALSE)

C2_Witness ==
  /\ IsBundler(running)
  /\ env = Str("Production")
  /\ config.outDir = "lib"
  /\ config.minify = FALSE
  /\ lastEnv = undefined
  /\ LastLoaded
  /\ lastConfig.outDir = "lib"
  /\ lastConfig.minify = FALSE

C4_DtsCleanSourcemap ==
  Loaded =>
    /\ config.dts = TRUE
    /\ config.clean = TRUE
    /\ config.sourcemap = TRUE

C4_Witness ==
  /\ IsBundler(running)
  /\ Loaded
  /\ env = Str("test")
  /\ config.dts
  /\ config.clean
  /\ config.sourcemap

StdExt == [js |-> ".js", dts |-> ".d.ts"]

\* C5: for every NODE_ENV and every argument, outExtensions returns
\* js -> ".js" and dts -> ".d.ts".
C5_OutExtensions ==
  /\ Loaded => \A ctx \in Contexts : config.outExtensions[ctx] = StdExt
  /\ extCtx # NoCtx => ext = StdExt

C5_Witness ==
  /\ IsBundler(running)
  /\ env = Production
  /\ extCtx = [format |-> "cjs", pkgType |-> "commonjs"]
  /\ ext.js = ".js"
  /\ ext.dts = ".d.ts"

\* A fully populated configuration record.
Populated(c) ==
  /\ DOMAIN c = ConfigFields
  /\ c.entry # <<>>
  /\ c.format # <<>>
  /\ c.dts \in BOOLEAN
  /\ c.clean \in BOOLEAN
  /\ c.sourcemap \in BOOLEAN
  /\ c.minify \in BOOLEAN
  /\ c.target # ""
  /\ c.outDir \in {"dist", "lib"}
  /\ DOMAIN c.outExtensions = Contexts

\* C6: the configuration supplier is total: for every NODE_ENV, absent
\* included, a bundler process gets a fully populated configuration and
\* never an error.
C6_Total ==
  IsBundler(running) =>
    /\ config # ConfigError
    /\ Populated(config)

C6_Witness ==
  /\ IsBundler(running)
  /\ env = undefined
  /\ NODE_ENV = undefined
  /\ Populated(config)

\* C7: two configurations (of the live bundler process and of the one that
\* exited before it) agree on every field other than outDir and minify, and
\* agree on outDir and minify exactly when both flags are "production" or
\* both are not; the record is a function of the flag with two values.
C7_TwoRecords ==
  (Loaded /\ LastLoaded) =>
    /\ \A f \in ConfigFields \ {"outDir", "minify"} : config[f] = lastConfig[f]
    /\ (config.outDir = lastConfig.outDir /\ config.minify = lastConfig.minify)
         <=> ((env = Production) <=> (lastEnv = Production))
    /\ (env = lastEnv) => (config = lastConfig)
    /\ (config = lastConfig) <=> ((env = Production) <=> (lastEnv = Production))

C7_Witness ==
  /\ Loaded
  /\ LastLoaded
  /\ env = Production
  /\ lastEnv = Str("prod")
  /\ config # lastConfig
  /\ config.target = lastConfig.target

(***************************************************************************)
(* Properties of the validation pipeline and of publishing.                *)
(***************************************************************************)
\* The four steps of the pipeline in the order the documentation gives.
Steps == <<Pnpm("format"), Pnpm("lint:check"), Pnpm("test"), Pnpm("build")>>

\* Position k of the log lies inside a run of the ci script.
InCi(k) == \E j \in 1..(k - 1) : log[j] = Start(Pnpm("ci"))

EndedBefore(c, k) ==
  \E j \in 1..(k - 1) : log[j].ev = "end" /\ log[j].cmd = c

SucceededBefore(c, k) == \E j \in 1..(k - 1) : log[j] = End(c, 0)

\* C8: the pipeline runs format, lint:check, test, build in this order: a
\* step starts only after the step before it has finished, and build never
\* starts before format, lint:check and test have all completed.
C8_StepOrder ==
  \A k \in DOMAIN log :
    /\ \A i \in 2..Len(Steps) :
         (InCi(k) /\ log[k] = Start(Steps[i])) => EndedBefore(Steps[i - 1], k)
    /\ (InCi(k) /\ log[k] = Start(Steps[4])) =>
         \A i \in 1..3 : EndedBefore(Steps[i], k)
    /\ \A i \in 1..Len(Steps) :
         (InCi(k) /\ log[k].cmd = Steps[i]) =>
           \A j \in 1..(k - 1) :
             log[j].cmd \notin {Steps[h] : h \in (i + 1)..Len(Steps)}

C8_Witness ==
  /\ manifest = "standard"
  /\ Len(log) > 0
  /\ log[1] = Start(Pnpm("ci"))
  /\ log[Len(log)] = Start(Pnpm("build"))
  /\ \A i \in 1..3 : SucceededBefore(Steps[i], Len(log))

\* C9: the pipeline succeeds only if all four steps succeed; when a step
\* fails no later step is run, nothing is retried, and the pipeline ends
\* with the exit status of the tool that failed.
C9_FailFast ==
  \A k \in DOMAIN log :
    /\ (InCi(k) /\ log[k].ev = "end" /\ log[k].status # 0) =>
         \A j \in (k + 1)..Len(log) : log[j].ev = "end" /\ log[j].status = log[k].status
    /\ log[k] = End(Pnpm("ci"), 0) =>
         \A i \in 1..Len(Steps) : SucceededBefore(Steps[i], k)
    /\ (InCi(k) /\ log[k].ev = "end" /\ log[k].cmd = Pnpm("ci") /\ log[k].status # 0) =>
         \E j \in 1..(k - 1) :
           /\ log[j].ev = "end"
           /\ log[j].cmd.kind = "tool"
           /\ log[j].status = log[k].status
    /\ (InCi(k) /\ log[k].ev = "start") =>
         \A j \in 1..(k - 1) : log[j] # log[k]

C9_Witness ==
  /\ manifest = "standard"
  /\ Len(log) > 0
  /\ log[1] = Start(Pnpm("ci"))
  /\ log[Len(log)] = End(Pnpm("ci"), 2)
  /\ EndedBefore(Pnpm("lint:check"), Len(log))
  /\ \E j \in DOMAIN log : log[j] = End(Tool("vitest run"), 2)
  /\ \A j \in DOMAIN log : log[j] # Start(Pnpm("build"))
  /\ exit = NoExit

\* C10: in every publish, the package is uploaded only after the
\* prepublishOnly hook has run the validation pipeline (format, lint
\* check, test, build) to successful completion.
C10_PublishGated ==
  \A k \in DOMAIN log :
    log[k] = Start(Upload) =>
      /\ SucceededBefore(Hook("prepublishOnly"), k)
      /\ \A i \in 1..Len(Steps) : SucceededBefore(Steps[i], k)

(***************************************************************************)
(* Properties of the commands' effects on files.                           *)
(***************************************************************************)
\* The command typed at the prompt, while its invocation runs.
RootCmd == IF stack # <<>> THEN stack[1].chain[1] ELSE NoCmd

\* A script of the given name has been started in the current invocation.
Started(names) == \E k \in DOMAIN log : \E n \in names : log[k] = Start(Pnpm(n))

\* No step of a format:check or lint:check invocation changes a file.
ChecksReadOnly ==
  RootCmd \in {Pnpm("format:check"), Pnpm("lint:check")} =>
    (src' = src /\ files' = files)

InProdBuild == Started({"build", "build:prod"})

\* The current invocation runs a development (watch) build script.
InDevBuild == Started({"dev", "build:watch", "build:dev"})

\* The bundler of the current invocation has exited successfully.
BundlerSucceeded ==
  \E k \in DOMAIN log :
    log[k].ev = "end" /\ IsBundler(log[k].cmd) /\ log[k].status = 0

DistFiles == {f \in files : f.dir = "dist"}

HasDist(n) == \E f \in DistFiles : f.name = n

\* C12: the production build reads the flag as "production", whatever
\* NODE_ENV is in the calling environment, so that its configuration has
\* outDir = "dist" and minify = true and its output is written to dist/.
C12_ProdBuildToDist ==
  /\ (InProdBuild /\ IsBundler(running)) =>
       /\ env = Production
       /\ config.outDir = "dist"
       /\ config.minify = TRUE
  /\ (InProdBuild /\ BundlerSucceeded) => HasDist("index.js")

C12_Witness ==
  /\ manifest = "package"
  /\ NODE_ENV = Str("development")
  /\ InProdBuild
  /\ BundlerSucceeded
  /\ HasDist("index.js")
  /\ lastEnv = Production
  /\ lastConfig.minify = TRUE

\* C13: the development builds (dev, build:watch, build:dev) have a
\* configuration with outDir = "lib" and minify = false and never write
\* to dist/.
C13_DevBuildToLib ==
  (InDevBuild /\ IsBundler(running)) =>
    /\ config.outDir = "lib"
    /\ config.minify = FALSE

C16_ReadOnce ==
  [][ (IsBundler(running) /\ IsBundler(running')) =>
        /\ env' = env
        /\ config' = config
        /\ \A f \in files' \ files : f.dir = outDir(env) ]_vars

C16_Witness ==
  /\ IsWatch(running)
  /\ env = undefined
  /\ procEnv = Production
  /\ config.outDir = "lib"
  /\ config.minify = FALSE
  /\ \E f \in files : f.dir = "lib" /\ f.name = "index.js"
  /\ ~HasDist("index.js")

\* C17: producing the configuration only reads the flag: the step that
\* loads it leaves NODE_ENV of the calling shell, process.env.NODE_ENV of
\* the bundler process, the manifest and every file as they were.
C17_NoSideEffects ==
  [][ (config = NoConfig /\ config' # NoConfig) =>
        /\ NODE_ENV' = NODE_ENV
        /\ procEnv' = env'
        /\ manifest' = manifest
        /\ src' = src
        /\ files' = files
        /\ published' = published ]_vars

C17_Witness ==
  /\ IsBundler(running)
  /\ Loaded
  /\ env = undefined
  /\ procEnv = undefined
  /\ NODE_ENV = undefined
  /\ files = StaleFiles
  /\ log = <<Start(Tool("tsdown"))>>

\* C18: in every configuration minify is true if and only if outDir is
\* "dist".
C18_MinifyIffDist ==
  /\ Loaded => (config.minify <=> config.outDir = "dist")
  /\ LastLoaded => (lastConfig.minify <=> lastConfig.outDir = "dist")

C18_Witness ==
  /\ Loaded
  /\ env = Str("test")
  /\ config.minify = FALSE
  /\ config.outDir = "lib"
  /\ LastLoaded
  /\ lastEnv = Production
  /\ lastConfig.minify = TRUE
  /\ lastConfig.outDir = "dist"

(***************************************************************************)
(* Properties of the manifest's entry points and of build:publish.         *)
(***************************************************************************)
\* C19: after a successful production build every file the manifest names
\* in main, module, types and exports exists in dist/.
C19_EntryPointsBuilt ==
  (InProdBuild /\ BundlerSucceeded) =>
    \A n \in EntryPoints(manifest) : HasDist(n)

\* Position k of the log lies inside a run of build:publish.
InBuildPublish(k) ==
  \E j \in 1..(k - 1) : log[j] = Start(Pnpm("build:publish"))

ProdBundler == CrossEnv("production", "tsup")

\* C20: build:publish uploads only after rimraf dist and the production
\* build have both succeeded, in this order; after a failed build nothing
\* is uploaded; and the dist/ it publishes holds the output of this build
\* only, nothing left over from an earlier one.
C20_BuildThenPublish ==
  /\ \A k \in DOMAIN log :
       /\ (InBuildPublish(k) /\ log[k] = Start(Upload)) =>
            /\ SucceededBefore(Pnpm("build:prod"), k)
            /\ SucceededBefore(ProdBundler, k)
            /\ \E j \in 1..(k - 1) :
                 /\ log[j] = Start(ProdBundler)
                 /\ SucceededBefore(Tool("rimraf dist"), j)
       /\ (InBuildPublish(k) /\ log[k].ev = "end" /\ log[k].cmd = Pnpm("build:prod")
             /\ log[k].status # 0) =>
            /\ \A j \in DOMAIN log : log[j].cmd # Upload /\ log[j].cmd # Publish
            /\ published = NotPublished
  /\ (Started({"build:publish"}) /\ published # NotPublished) =>
       /\ {f \in published : f.dir = "dist"} = Emit(defineConfig(Production))
       /\ published \cap StaleFiles \subseteq {f \in StaleFiles : f.dir # "dist"}

C20_Witness ==
  /\ manifest = "package"
  /\ NODE_ENV = Str("test")
  /\ Started({"build:publish"})
  /\ published # NotPublished
  /\ File("dist", "index.js", "esm") \in published
  /\ File("dist", "old.js", "esm") \notin published

====
